---- MODULE Spec2Model ----
(***************************************************************************)
(* ThumborUrlBuilder (src/src/thumbor-url-builder.ts): a fluent builder    *)
(* that accumulates image operations and renders them into a thumbor URL.  *)
(*                                                                         *)
(* JavaScript strings are TLA+ strings; a nullable field is a sequence of  *)
(* length 0 (null) or 1 (the value).  The builder object is the record     *)
(* `this`; every method is an operator from a builder record (and the      *)
(* call's arguments) to the builder record the call leaves behind, and     *)
(* one action of the state machine.                                        *)
(***************************************************************************)
EXTENDS Integers, Sequences, TLC

VARIABLES
    this,       \* the builder's fields
    ret,        \* what the latest call returned (or threw)
    pathArg,    \* the argument of the latest setImagePath call
    calls       \* how many configuration calls have been made

vars == <<this, ret, pathArg, calls>>

----------------------------------------------------------------------------
(* Bounds and inputs *)

\* longest configuration sequence explored
MaxCalls == 4

Null == <<>>
Some(v) == <<v>>

ImagePaths == {"", "/", "a.png", "/a.png", "//a.png"}
\* width and height are typed `number`; 0 is the proportional (unset) value
Dimensions == {0, 12}
HAligns == {"left", "center", "right"}
VAligns == {"top", "middle", "bottom"}
Formats == {"webp"}
FilterCalls == {"quality(80)"}
CropArgs == {<<1, 2, 3, 4>>, <<4, 3, 2, 1>>, <<0, 5, 10, 10>>, <<1, 2, 3, 0>>, <<1, -2, 3, 4>>}
SecurityKeys == {Null, Some("k")}
ServerUrl == "http://example.com"

----------------------------------------------------------------------------
(* String helpers of the JavaScript runtime *)

\* String.prototype.charAt: the empty string past the end
charAt(s, i) == IF i + 1 <= Len(s) THEN SubSeq(s, i + 1, i + 1) ELSE ""

\* String.prototype.substring(from, to) for 0 <= from, to
substring(s, from, to) ==
    LET hi == IF to > Len(s) THEN Len(s) ELSE to
        lo == IF from > Len(s) THEN Len(s) ELSE from
    IN  IF lo >= hi THEN "" ELSE SubSeq(s, lo + 1, hi)

\* Array.prototype.join
RECURSIVE join(_, _)
join(parts, sep) ==
    IF Len(parts) = 0 THEN ""
    ELSE IF Len(parts) = 1 THEN parts[1]
    ELSE parts[1] \o sep \o join(Tail(parts), sep)

\* String.prototype.replace with a global single-character pattern
RECURSIVE replaceAll(_, _, _)
replaceAll(s, c, d) ==
    IF Len(s) = 0 THEN ""
    ELSE (IF charAt(s, 0) = c THEN d ELSE charAt(s, 0))
         \o replaceAll(substring(s, 1, Len(s)), c, d)

\* number-to-string conversion of `sizeString += this.width`
numberToString(n) == ToString(n)

----------------------------------------------------------------------------
(* The builder *)

NewBuilder(securityKey, serverUrl) ==
    [ imagePath        |-> "",
      width            |-> 0,
      height           |-> 0,
      smart            |-> FALSE,
      fitInFlag        |-> FALSE,
      flipHorizontally |-> FALSE,
      flipVertically   |-> FALSE,
      hAlignValue      |-> Null,
      vAlignValue      |-> Null,
      cropValues       |-> Null,
      meta             |-> FALSE,
      filtersCalls     |-> <<>>,
      securityKey      |-> securityKey,
      serverUrl        |-> serverUrl ]

\* variant: the path is stored as given
setImagePathAsGiven(b, imagePath) ==
    [b EXCEPT !.imagePath = imagePath]

setImagePath(b, imagePath) ==
    [b EXCEPT !.imagePath =
        IF charAt(imagePath, 0) = "/"
        THEN substring(imagePath, 1, Len(imagePath))
        ELSE imagePath]

\* variant: resize also leaves fit-in mode
resizeClearsFitIn(b, width, height) ==
    [b EXCEPT !.width = width, !.height = height, !.fitInFlag = FALSE]

resize(b, width, height) ==
    [b EXCEPT !.width = width, !.height = height]

smartCrop(b, flag) ==
    [b EXCEPT !.smart = flag]

fitIn(b, width, height) ==
    [b EXCEPT !.width = width, !.height = height, !.fitInFlag = TRUE]

withFlipHorizontally(b) ==
    [b EXCEPT !.flipHorizontally = TRUE]

withFlipVertically(b) ==
    [b EXCEPT !.flipVertically = TRUE]

hAlign(b, value) ==
    [b EXCEPT !.hAlignValue = Some(value)]

vAlign(b, value) ==
    [b EXCEPT !.vAlignValue = Some(value)]

metaDataOnly(b) ==
    [b EXCEPT !.meta = TRUE]

\* variant: unshift instead of push
filterUnshift(b, filterCall) ==
    [b EXCEPT !.filtersCalls = <<filterCall>> \o @]

filter(b, filterCall) ==
    [b EXCEPT !.filtersCalls = Append(@, filterCall)]

format(b, fmt) ==
    filter(b, "format(" \o fmt \o ")")

\* variant: >= instead of >
cropNonNegative(b, left, top, right, bottom) ==
    IF left >= 0 /\ top >= 0 /\ right >= 0 /\ bottom >= 0
    THEN [b EXCEPT !.cropValues =
            Some([left |-> left, top |-> top, right |-> right, bottom |-> bottom])]
    ELSE b

crop(b, left, top, right, bottom) ==
    IF left > 0 /\ top > 0 /\ right > 0 /\ bottom > 0
    THEN [b EXCEPT !.cropValues =
            Some([left |-> left, top |-> top, right |-> right, bottom |-> bottom])]
    ELSE b

----------------------------------------------------------------------------
(* Rendering *)

ErrorMessage == "The image url can't be null or empty."

\* variant: the guard is missing
urlPartsNeverThrows(b) == FALSE

\* `if (!this.imagePath) throw`
urlPartsThrows(b) == b.imagePath = ""

cropPart(b) ==
    LET c == b.cropValues[1]
    IN  numberToString(c.left) \o "x" \o numberToString(c.top) \o ":"
        \o numberToString(c.right) \o "x" \o numberToString(c.bottom)

\* variant: the flips are not part of the condition
sizeConditionNoFlip(b) ==
    b.width # 0 \/ b.height # 0

sizeCondition(b) ==
    b.width # 0 \/ b.height # 0 \/ b.flipHorizontally \/ b.flipVertically

sizeString(b) ==
    LET s1 == IF b.flipHorizontally = TRUE THEN "-" ELSE ""
        s2 == s1 \o numberToString(b.width)
        s3 == s2 \o "x"
        s4 == IF b.flipVertically = TRUE THEN s3 \o "-" ELSE s3
    IN  s4 \o numberToString(b.height)

\* variant: `smart` is pushed before the alignments
urlPartsSmartEarly(b) ==
    LET p0 == <<>>
        p1 == IF b.meta = TRUE THEN Append(p0, "meta") ELSE p0
        p2 == IF b.cropValues # Null THEN Append(p1, cropPart(b)) ELSE p1
        p3 == IF b.fitInFlag = TRUE THEN Append(p2, "fit-in") ELSE p2
        p4 == IF sizeCondition(b) THEN Append(p3, sizeString(b)) ELSE p3
        p5 == IF b.smart = TRUE THEN Append(p4, "smart") ELSE p4
        p6 == IF b.hAlignValue # Null THEN Append(p5, b.hAlignValue[1]) ELSE p5
        p7 == IF b.vAlignValue # Null THEN Append(p6, b.vAlignValue[1]) ELSE p6
        p8 == IF Len(b.filtersCalls) > 0
              THEN Append(p7, "filters:" \o join(b.filtersCalls, ":"))
              ELSE p7
    IN  p8

\* the parts array, built by the successive conditional pushes
urlParts(b) ==
    LET p0 == <<>>
        p1 == IF b.meta = TRUE THEN Append(p0, "meta") ELSE p0
        p2 == IF b.cropValues # Null THEN Append(p1, cropPart(b)) ELSE p1
        p3 == IF b.fitInFlag = TRUE THEN Append(p2, "fit-in") ELSE p2
        p4 == IF sizeCondition(b) THEN Append(p3, sizeString(b)) ELSE p3
        p5 == IF b.hAlignValue # Null THEN Append(p4, b.hAlignValue[1]) ELSE p4
        p6 == IF b.vAlignValue # Null THEN Append(p5, b.vAlignValue[1]) ELSE p5
        p7 == IF b.smart = TRUE THEN Append(p6, "smart") ELSE p6
        p8 == IF Len(b.filtersCalls) > 0
              THEN Append(p7, "filters:" \o join(b.filtersCalls, ":"))
              ELSE p7
    IN  p8

getOperationPath(b) ==
    LET parts == urlParts(b)
    IN  IF 0 = Len(parts) THEN "" ELSE join(parts, "/") \o "/"

\* crypto.HmacSHA1(message, key): an abstract digest that keeps what it was
\* computed from
HmacSHA1(message, key) == [message |-> message, key |-> key]

\* crypto.enc.Base64.stringify: an abstract injective text of the digest
\* over an alphabet that holds '+', '/' and the '=' padding
Base64Stringify(digest) ==
    "+/" \o digest.key \o "+" \o digest.message \o "="

\* variant: the image path is left out of the signed message
getSecureStringOperationOnly(b, operation) ==
    IF b.securityKey = Null
    THEN "unsafe"
    ELSE LET key == HmacSHA1(operation, b.securityKey[1])
             keyString == replaceAll(replaceAll(Base64Stringify(key), "+", "-"), "/", "_")
         IN  keyString

getSecureString(b, operation) ==
    IF b.securityKey = Null
    THEN "unsafe"
    ELSE LET key == HmacSHA1(operation \o b.imagePath, b.securityKey[1])
             keyString == replaceAll(replaceAll(Base64Stringify(key), "+", "-"), "/", "_")
         IN  keyString

RetThis == [kind |-> "this", value |-> ""]
RetThrow(msg) == [kind |-> "throw", value |-> msg]
RetString(s) == [kind |-> "string", value |-> s]

buildUrl(b) ==
    IF urlPartsThrows(b)
    THEN RetThrow(ErrorMessage)
    ELSE LET operation == getOperationPath(b)
             secureString == getSecureString(b, operation)
         IN  RetString(b.serverUrl \o "/" \o secureString \o "/" \o operation \o b.imagePath)

----------------------------------------------------------------------------
(* The state machine: one action per public method *)

Init ==
    /\ \E k \in SecurityKeys : this = NewBuilder(k, ServerUrl)
    /\ ret = RetThis
    /\ pathArg = ""
    /\ calls = 0

Called ==
    /\ calls < MaxCalls
    /\ calls' = calls + 1
    /\ ret' = RetThis

Setter(b) ==
    /\ Called
    /\ this' = b
    /\ UNCHANGED pathArg

SetImagePath ==
    \E p \in ImagePaths :
        /\ Called
        /\ this' = setImagePath(this, p)
        /\ pathArg' = p

Resize == \E w \in Dimensions, h \in Dimensions : Setter(resize(this, w, h))

SmartCrop == \E f \in BOOLEAN : Setter(smartCrop(this, f))

FitIn == \E w \in Dimensions, h \in Dimensions : Setter(fitIn(this, w, h))

WithFlipHorizontally == Setter(withFlipHorizontally(this))

WithFlipVertically == Setter(withFlipVertically(this))

HAlign == \E a \in HAligns : Setter(hAlign(this, a))

VAlign == \E a \in VAligns : Setter(vAlign(this, a))

MetaDataOnly == Setter(metaDataOnly(this))

Filter ==
    \E f \in FilterCalls : Setter(filter(this, f))

Format ==
    \E f \in Formats : Setter(format(this, f))

Crop == \E a \in CropArgs : Setter(crop(this, a[1], a[2], a[3], a[4]))

\* variant: a build consumes the accumulated filters
BuildUrlConsumes ==
    /\ ret' = buildUrl(this)
    /\ this' = [this EXCEPT !.filtersCalls = <<>>]
    /\ UNCHANGED <<pathArg, calls>>

BuildUrl ==
    /\ ret' = buildUrl(this)
    /\ UNCHANGED <<this, pathArg, calls>>

Next ==
    \/ SetImagePath
    \/ Resize
    \/ SmartCrop
    \/ FitIn
    \/ WithFlipHorizontally
    \/ WithFlipVertically
    \/ HAlign
    \/ VAlign
    \/ MetaDataOnly
    \/ Filter
    \/ Format
    \/ Crop
    \/ BuildUrl

Spec == Init /\ [][Next]_vars

----------------------------------------------------------------------------
(* Vocabulary of the properties *)

startsWith(s, p) == Len(s) >= Len(p) /\ SubSeq(s, 1, Len(p)) = p

endsWith(s, p) == Len(s) >= Len(p) /\ SubSeq(s, Len(s) - Len(p) + 1, Len(s)) = p

contains(s, c) == \E i \in 1..Len(s) : SubSeq(s, i, i) = c

IsPrefix(s, t) == Len(s) <= Len(t) /\ \A i \in 1..Len(s) : s[i] = t[i]

\* the place of a rendered segment in the fixed order, told from its text alone
Rank(seg) ==
    IF seg = "meta" THEN 1
    ELSE IF seg = "fit-in" THEN 3
    ELSE IF seg \in HAligns THEN 5
    ELSE IF seg \in VAligns THEN 6
    ELSE IF seg = "smart" THEN 7
    ELSE IF startsWith(seg, "filters:") THEN 8
    ELSE IF contains(seg, ":") THEN 2
    ELSE 4

\* whether the feature rendered at place r is enabled in builder b
Enabled(b, r) ==
    CASE r = 1 -> b.meta
      [] r = 2 -> b.cropValues # Null
      [] r = 3 -> b.fitInFlag
      [] r = 4 -> b.width # 0 \/ b.height # 0 \/ b.flipHorizontally \/ b.flipVertically
      [] r = 5 -> b.hAlignValue # Null
      [] r = 6 -> b.vAlignValue # Null
      [] r = 7 -> b.smart
      [] r = 8 -> b.filtersCalls # <<>>

\* the segments of place r among the rendered parts
PartsOfRank(parts, r) ==
    LET Is(seg) == Rank(seg) = r
    IN  SelectSeq(parts, Is)

\* a configuration call: the method, its numeric arguments, its string argument
Call(op, nums, str) == [op |-> op, nums |-> nums, str |-> str]

\* one call of every setter
SampleCalls ==
    << Call("setImagePath", <<>>, "/a.png"),
      Call("resize", <<12, 0>>, ""),
      Call("fitIn", <<0, 12>>, ""),
      Call("smartCrop", <<1>>, ""),
      Call("withFlipHorizontally", <<>>, ""),
      Call("withFlipVertically", <<>>, ""),
      Call("hAlign", <<>>, "left"),
      Call("vAlign", <<>>, "top"),
      Call("metaDataOnly", <<>>, ""),
      Call("filter", <<>>, "quality(80)"),
      Call("format", <<>>, "webp"),
      Call("crop", <<1, 2, 3, 4>>, "") >>

Apply(b, c) ==
    CASE c.op = "setImagePath" -> setImagePath(b, c.str)
      [] c.op = "resize" -> resize(b, c.nums[1], c.nums[2])
      [] c.op = "fitIn" -> fitIn(b, c.nums[1], c.nums[2])
      [] c.op = "smartCrop" -> smartCrop(b, c.nums[1] = 1)
      [] c.op = "withFlipHorizontally" -> withFlipHorizontally(b)
      [] c.op = "withFlipVertically" -> withFlipVertically(b)
      [] c.op = "hAlign" -> hAlign(b, c.str)
      [] c.op = "vAlign" -> vAlign(b, c.str)
      [] c.op = "metaDataOnly" -> metaDataOnly(b)
      [] c.op = "filter" -> filter(b, c.str)
      [] c.op = "format" -> format(b, c.str)
      [] c.op = "crop" -> crop(b, c.nums[1], c.nums[2], c.nums[3], c.nums[4])

\* the feature a call configures
Feature(c) ==
    CASE c.op \in {"resize", "fitIn"} -> "size"
      [] c.op \in {"filter", "format"} -> "filters"
      [] OTHER -> c.op

Built == ret.kind # "this"

\* two builders render the same operation path (equal builders do)
SamePath(b1, b2) ==
    b1 = b2 \/ getOperationPath(b1) = getOperationPath(b2)

----------------------------------------------------------------------------
(* C1 *)

\* C1: a build throws the usage error exactly when the image path held at
\* build time is empty (never set, set to "" or set to "/"), and returns a
\* URL exactly when it is non-empty, whatever the rest of the state is.
C1_ThrowsIffEmptyPath ==
    Built =>
        /\ (ret.kind = "throw") <=> (this.imagePath = "")
        /\ (ret.kind = "throw") <=> (pathArg \in {"", "/"})
        /\ (ret.kind = "string") <=> (Len(this.imagePath) > 0)
        /\ ret.kind = "throw" => ret.value = "The image url can't be null or empty."

C1_Witness ==
    /\ ret.kind = "throw"
    /\ pathArg = "/"
    /\ this.fitInFlag
    /\ this.filtersCalls # <<>>
----------------------------------------------------------------------------
(* C2 *)

\* C2: with a non-empty image path, the rendered segments follow the fixed
\* order meta, crop, fit-in, size, hAlign, vAlign, smart, filters (their
\* places strictly increase, so none appears twice), the segment of a place
\* is rendered exactly when its feature is enabled, and two setter calls that
\* configure different features render the same operation path in either
\* order.
C2_FixedSegmentOrder ==
    this.imagePath # "" =>
        LET parts == urlParts(this)
        IN  /\ \A i \in 1..Len(parts) : \A j \in 1..Len(parts) :
                    i < j => Rank(parts[i]) < Rank(parts[j])
            /\ \A r \in 1..8 :
                    Enabled(this, r) <=> (\E i \in 1..Len(parts) : Rank(parts[i]) = r)
            /\ \A i \in 1..Len(SampleCalls) : \A j \in (i + 1)..Len(SampleCalls) :
                    LET c == SampleCalls[i]
                        d == SampleCalls[j]
                    IN  Feature(c) # Feature(d) => SamePath(Apply(Apply(this, c), d),
                                                            Apply(Apply(this, d), c))

C2_Witness ==
    /\ this.imagePath # ""
    /\ this.meta
    /\ this.smart
    /\ this.filtersCalls # <<>>
    /\ urlParts(this) = <<"meta", "smart", "filters:quality(80)">>

----------------------------------------------------------------------------
(* C3 *)

\* C3 as stated: the stored image path never begins with '/'.
C3_NeverLeadingSlash ==
    charAt(this.imagePath, 0) # "/"

\* C3 as amended: the stored image path is the latest setImagePath argument
\* with exactly one leading '/' removed when the argument begins with '/',
\* and the argument itself otherwise; it begins with '/' only when the
\* argument began with "//".
C3_OneLeadingSlashStripped ==
    /\ charAt(pathArg, 0) = "/" => "/" \o this.imagePath = pathArg
    /\ charAt(pathArg, 0) # "/" => this.imagePath = pathArg
    /\ charAt(this.imagePath, 0) = "/" => startsWith(pathArg, "//")

C3_Witness ==
    /\ pathArg = "//a.png"
    /\ this.imagePath = "/a.png"

----------------------------------------------------------------------------
(* C4 *)

AllPositive(a) == a[1] > 0 /\ a[2] > 0 /\ a[3] > 0 /\ a[4] > 0

\* C4: crop sets the window to exactly its four arguments iff all four are
\* strictly positive and otherwise changes nothing (an earlier window stays);
\* so the window is unset or has four strictly positive coordinates, and it
\* renders as "{left}x{top}:{right}x{bottom}".
C4_CropOnlyWhenAllPositive ==
    /\ \A a \in CropArgs :
        LET after == crop(this, a[1], a[2], a[3], a[4])
        IN  IF AllPositive(a)
            THEN after = [this EXCEPT !.cropValues =
                    <<[left |-> a[1], top |-> a[2], right |-> a[3], bottom |-> a[4]]>>]
            ELSE after = this
    /\ this.cropValues # Null =>
        LET c == this.cropValues[1]
        IN  /\ c.left > 0 /\ c.top > 0 /\ c.right > 0 /\ c.bottom > 0
            /\ <<c.left, c.top, c.right, c.bottom>> \in CropArgs
    /\ LET rendered == PartsOfRank(urlParts(this), 2)
       IN  /\ this.cropValues = Null => rendered = <<>>
           /\ this.cropValues = <<[left |-> 1, top |-> 2, right |-> 3, bottom |-> 4]>>
                => rendered = <<"1x2:3x4">>
           /\ this.cropValues = <<[left |-> 4, top |-> 3, right |-> 2, bottom |-> 1]>>
                => rendered = <<"4x3:2x1">>

C4_Witness ==
    /\ this.cropValues = <<[left |-> 4, top |-> 3, right |-> 2, bottom |-> 1]>>
    /\ ret.kind = "string"
    /\ contains(ret.value, ":")
----------------------------------------------------------------------------
(* C5 *)

\* the URL-safe text of the signature of `message` under `key`
Signature(key, message) ==
    replaceAll(replaceAll(Base64Stringify(HmacSHA1(message, key)), "+", "-"), "/", "_")

\* C5: a returned URL is serverRoot + "/" + token + "/" + operationPath +
\* imagePath; operationPath is the segments joined by "/" plus one trailing
\* "/", or empty when nothing is rendered; token is "unsafe" iff no security
\* key was given, and otherwise the URL-safe Base64 of the HMAC, under the
\* key, of the very operationPath + imagePath that follow it in the URL.
C5_UrlAssembly ==
    ret.kind = "string" =>
        LET parts == urlParts(this)
            operationPath == IF parts = <<>> THEN "" ELSE join(parts, "/") \o "/"
            rest == operationPath \o this.imagePath
            token == IF this.securityKey = Null
                     THEN "unsafe"
                     ELSE Signature(this.securityKey[1], rest)
            head == this.serverUrl \o "/" \o token \o "/"
        IN  /\ ret.value = head \o rest
            /\ (token = "unsafe") <=> (this.securityKey = Null)
            /\ ~contains(token, "/") /\ ~contains(token, "+")
            /\ parts = <<>> => ret.value = head \o this.imagePath
            /\ parts # <<>> => /\ endsWith(operationPath, "/")
                               /\ ~endsWith(operationPath, "//")
            /\ this = resize(setImagePath(NewBuilder(Null, ServerUrl), "/a.png"), 12, 0)
                    => ret.value = "http://example.com/unsafe/12x0/a.png"
            /\ this = vAlign(hAlign(fitIn(setImagePath(NewBuilder(Null, ServerUrl),
                                "a.png"), 12, 0), "left"), "top")
                    => ret.value = "http://example.com/unsafe/fit-in/12x0/left/top/a.png"

C5_Witness ==
    /\ ret.kind = "string"
    /\ this.securityKey # Null
    /\ urlParts(this) # <<>>
    /\ ret.value = "http://example.com/-_k-12x0_a.png=/12x0/a.png"

----------------------------------------------------------------------------
(* C6 *)

----------------------------------------------------------------------------
(* C7 *)

\* C7: resize(w2, h2) after an earlier fitIn or resize builds the same URL
\* as resize(w2, h2) alone, and fitIn(w2, h2) after an earlier resize or
\* fitIn builds the same URL as fitIn(w2, h2) alone.
C7_LaterSizeCallOverrides ==
    \A w1 \in Dimensions : \A h1 \in Dimensions :
    \A w2 \in Dimensions : \A h2 \in Dimensions :
        /\ buildUrl(resize(fitIn(this, w1, h1), w2, h2)) = buildUrl(resize(this, w2, h2))
        /\ buildUrl(resize(resize(this, w1, h1), w2, h2)) = buildUrl(resize(this, w2, h2))
        /\ buildUrl(fitIn(resize(this, w1, h1), w2, h2)) = buildUrl(fitIn(this, w2, h2))
        /\ buildUrl(fitIn(fitIn(this, w1, h1), w2, h2)) = buildUrl(fitIn(this, w2, h2))

----------------------------------------------------------------------------
(* C8 *)

\* C8: filters only accumulate: every call leaves the earlier list as a
\* prefix of the later one, filter appends its argument, format(fmt) appends
\* "format(" + fmt + ")", and the filters segment is rendered iff the list
\* is non-empty, as "filters:" followed by the entries joined by ":" in
\* call order.
C8_FiltersAccumulate ==
    /\ [][IsPrefix(this.filtersCalls, this'.filtersCalls)]_vars
    /\ [](/\ \A f \in FilterCalls :
                filter(this, f) = [this EXCEPT !.filtersCalls = this.filtersCalls \o <<f>>]
          /\ format(this, "webp")
                = [this EXCEPT !.filtersCalls = this.filtersCalls \o <<"format(webp)">>]
          /\ LET rendered == PartsOfRank(urlParts(this), 8)
             IN  /\ this.filtersCalls = <<>> <=> rendered = <<>>
                 /\ this.filtersCalls # <<>> =>
                        /\ rendered = <<"filters:" \o join(this.filtersCalls, ":")>>
                        /\ urlParts(this)[Len(urlParts(this))] = rendered[1]
                 /\ this.filtersCalls = <<"quality(80)", "format(webp)">>
                        => rendered = <<"filters:quality(80):format(webp)">>
                 /\ this.filtersCalls = <<"format(webp)", "quality(80)", "quality(80)">>
                        => rendered = <<"filters:format(webp):quality(80):quality(80)">>)

C8_Witness ==
    /\ this.filtersCalls = <<"quality(80)", "format(webp)">>
    /\ ret.kind = "string"
    /\ ret.value = "http://example.com/unsafe/filters:quality(80):format(webp)/a.png"

----------------------------------------------------------------------------
(* C9 *)

\* C9: a build changes no builder field, returns what the state at that
\* time renders however many builds (successful or failed) came before, and
\* two builds with no setter call in between return the same result.
C9_BuildIsPure ==
    /\ [][ret'.kind # "this" => this' = this]_vars
    /\ [][(ret.kind # "this" /\ ret'.kind # "this") => ret' = ret]_vars
    /\ [](ret.kind # "this" => ret = buildUrl(this))

C9_Witness ==
    /\ ret.kind = "string"
    /\ this.securityKey # Null
    /\ this.filtersCalls # <<>>
    /\ calls = MaxCalls

----------------------------------------------------------------------------
(* C10 *)

\* C10: the size segment is rendered iff width # 0, height # 0 or a flip
\* holds, and is ["-" if flipped horizontally] width "x" ["-" if flipped
\* vertically] height, a zero dimension rendered as "0": no size segment for
\* resize(0, 0) or fitIn(0, 0) without a flip, and "-0x0", "0x-0" or "-0x-0"
\* for a flip with no size.
C10_SizeSegment ==
    LET rendered == PartsOfRank(urlParts(this), 4)
        on == this.width # 0 \/ this.height # 0
                \/ this.flipHorizontally \/ this.flipVertically
        dec(n) == CASE n = 0 -> "0" [] n = 12 -> "12"
    IN  /\ on <=> rendered # <<>>
        /\ on => rendered = << (IF this.flipHorizontally THEN "-" ELSE "") \o dec(this.width)
                               \o "x"
                               \o (IF this.flipVertically THEN "-" ELSE "") \o dec(this.height) >>
        /\ (this.width = 0 /\ this.height = 0) =>
                rendered = CASE this.flipHorizontally /\ this.flipVertically -> <<"-0x-0">>
                             [] this.flipHorizontally /\ ~this.flipVertically -> <<"-0x0">>
                             [] ~this.flipHorizontally /\ this.flipVertically -> <<"0x-0">>
                             [] OTHER -> <<>>
        /\ (this.width = 12 /\ this.height = 12 /\ this.flipHorizontally
                /\ ~this.flipVertically) => rendered = <<"-12x12">>
        /\ this = fitIn(NewBuilder(this.securityKey, ServerUrl), 0, 0)
                => urlParts(this) = <<"fit-in">>

C10_Witness ==
    /\ this.width = 0
    /\ this.height = 0
    /\ this.flipVertically
    /\ ~this.flipHorizontally
    /\ ret.kind = "string"
    /\ ret.value = "http://example.com/unsafe/0x-0/a.png"
====
